---- MODULE Spec2Model ----
(***************************************************************************)
(* A model of the vexed solver: the board (Walls), the puzzle state        *)
(* (Level), the transition function Level._move (fall and merge to a fixed *)
(* point), Block.heuristics, and the A* search VexedSolver.astar.           *)
(*                                                                         *)
(* Coordinates are those of the source: rows and columns count from 0,     *)
(* walls.walls[row][col] is row-major and list_repr[col][row] is           *)
(* column-major.  Python's None is the empty tuple << >> and a present     *)
(* value v is <<v>>.                                                       *)
(***************************************************************************)
EXTENDS Integers, Sequences, FiniteSets, TLC

(* Bounds of the model. *)
Width == 3
Height == 2
NumColors == 2
MaxBound == 2
MaxDepth == 3
MaxHeld == 3
PhaseWidth == 2
PhaseHeight == 4

None == << >>

Some(v) == <<v>>

(***************************************************************************)
(* Walls                                                                   *)
(***************************************************************************)

(* Walls.is_wall: below the grid and left or right of it is wall. *)
is_wall(W, row, col) ==
    IF row >= W.height THEN TRUE
    ELSE IF col < 0 \/ col >= W.width THEN TRUE
    ELSE W.walls[row][col]

(* The row scan of one column in Walls.__init__: start is the first row of
   the open span being scanned, None outside a span. *)
RECURSIVE ColumnRuns(_, _, _, _, _)
ColumnRuns(W, col, row, start, acc) ==
    IF row > W.height THEN acc
    ELSE LET wall == is_wall(W, row, col) IN
         IF wall = (start = None) THEN ColumnRuns(W, col, row + 1, start, acc)
         ELSE IF wall
              THEN ColumnRuns(W, col, row + 1, None,
                              IF row - start[1] > 1
                              THEN Append(acc, <<col, start[1], row>>)
                              ELSE acc)
              ELSE ColumnRuns(W, col, row + 1, Some(row), acc)

RECURSIVE AllColumnRuns(_, _, _)
AllColumnRuns(W, col, acc) ==
    IF col >= W.width THEN acc
    ELSE AllColumnRuns(W, col + 1, ColumnRuns(W, col, 0, None, acc))

(* Walls.__init__: the grid, its size and the empty-column runs. *)
Walls_init(grid) ==
    LET W == [walls |-> grid,
              width |-> Cardinality(DOMAIN grid[0]),
              height |-> Cardinality(DOMAIN grid)]
    IN [walls |-> W.walls, width |-> W.width, height |-> W.height,
        empty_columns |-> AllColumnRuns(W, 0, << >>)]

(***************************************************************************)
(* Block, Move, Level                                                      *)
(***************************************************************************)

Block(color, row, col) == [color |-> color, row |-> row, col |-> col]

Move(row, col, color, to_left) ==
    [row |-> row, col |-> col, color |-> color, to_left |-> to_left]

original_position(move) == <<move.row, move.col>>

new_position(move) ==
    <<move.row, move.col + (IF move.to_left THEN -1 ELSE 1)>>

(* Level.to_nested_list: -1 on walls, 0 on free cells, the colour on blocks. *)
to_nested_list(W, blocks) ==
    [i \in 0 .. W.width - 1 |->
        [j \in 0 .. W.height - 1 |->
            IF \E b \in blocks : b.col = i /\ b.row = j
            THEN (CHOOSE b \in blocks : b.col = i /\ b.row = j).color
            ELSE IF W.walls[j][i] THEN -1 ELSE 0]]

(* Level.__init__ with list_repr given. *)
Level(blocks, list_repr) == [blocks |-> blocks, list_repr |-> list_repr]

(* The blocks Level._move reads back from the grid. *)
BlocksOf(list_repr) ==
    {Block(list_repr[x][y], y, x) :
        <<x, y>> \in {c \in UNION {{<<x, y>> : y \in DOMAIN list_repr[x]} :
                                    x \in DOMAIN list_repr} :
                        list_repr[c[1]][c[2]] > 0}}

(* One step of the inner fall loop: the block at row j drops one row when
   the cell below is free. *)
FallStep(column, j) ==
    IF column[j] <= 0 THEN column
    ELSE IF column[j + 1] # 0 THEN column
    ELSE [column EXCEPT ![j + 1] = column[j], ![j] = 0]

(* for j in range(row_end - 2, i - 1, -1) *)
RECURSIVE FallInner(_, _, _)
FallInner(column, j, i) ==
    IF j < i THEN column ELSE FallInner(FallStep(column, j), j - 1, i)

(* The outer loop run once only: every block drops one row at most. *)
FallRunOnePass(column, i, row_end) == FallInner(column, row_end - 2, i)

(* for i in range(row_start, row_end - 1) *)
RECURSIVE FallRun(_, _, _)
FallRun(column, i, row_end) ==
    IF i >= row_end - 1 THEN column
    ELSE FallRun(FallInner(column, row_end - 2, i), i + 1, row_end)

(* for x, row_start, row_end in self.walls.empty_columns *)
RECURSIVE FallPhase(_, _, _)
FallPhase(list_repr, runs, k) ==
    IF k > Len(runs) THEN list_repr
    ELSE FallPhase([list_repr EXCEPT
                       ![runs[k][1]] = FallRun(@, runs[k][2], runs[k][3])],
                   runs, k + 1)

(* to_be_merged with lines 217 and 220 left out: of two neighbours of one
   colour only the upper or left one is collected. *)
ToBeMergedFirstOnly(W, list_repr) ==
    LET cells == (0 .. W.width - 1) \X (0 .. W.height - 1)
    IN {c \in cells :
           /\ list_repr[c[1]][c[2]] > 0
           /\ \/ /\ c[2] < W.height - 1
                 /\ list_repr[c[1]][c[2]] = list_repr[c[1]][c[2] + 1]
              \/ /\ c[1] < W.width - 1
                 /\ list_repr[c[1]][c[2]] = list_repr[c[1] + 1][c[2]]}

(* The cells the merge phase collects in to_be_merged. *)
ToBeMerged(W, list_repr) ==
    LET cells == (0 .. W.width - 1) \X (0 .. W.height - 1)
        down == {c \in cells : /\ list_repr[c[1]][c[2]] > 0
                               /\ c[2] < W.height - 1
                               /\ list_repr[c[1]][c[2]] = list_repr[c[1]][c[2] + 1]}
        right == {c \in cells : /\ list_repr[c[1]][c[2]] > 0
                                /\ c[1] < W.width - 1
                                /\ list_repr[c[1]][c[2]] = list_repr[c[1] + 1][c[2]]}
    IN down \cup {<<c[1], c[2] + 1>> : c \in down}
            \cup right \cup {<<c[1] + 1, c[2]>> : c \in right}

(* for x, y in to_be_merged: list_repr[x][y] = 0 *)
MergePhase(W, list_repr) ==
    LET tbm == ToBeMerged(W, list_repr) IN
    [x \in DOMAIN list_repr |->
        [y \in DOMAIN list_repr[x] |->
            IF <<x, y>> \in tbm THEN 0 ELSE list_repr[x][y]]]

(* The loop left after its first round: one fall phase and one merge phase,
   and no fall for the blocks that stood on the merged ones. *)
SettleOnce(W, list_repr) ==
    MergePhase(W, FallPhase(list_repr, W.empty_columns, 1))

(* while not merge_settled: fall, then merge; the loop ends after a merge
   phase that found nothing. *)
RECURSIVE SettleLoop(_, _)
SettleLoop(W, list_repr) ==
    LET fallen == FallPhase(list_repr, W.empty_columns, 1) IN
    IF ToBeMerged(W, fallen) = {} THEN fallen
    ELSE SettleLoop(W, MergePhase(W, fallen))

(* Lines 191-192 with the origin cell left as it is: the block moved is
   also still where it was. *)
ShiftNoClear(list_repr, move) ==
    [list_repr EXCEPT
        ![new_position(move)[2]][new_position(move)[1]] = move.color]

(* Lines 191-192: the origin cell is cleared and the colour written to the
   new position. *)
Shift(list_repr, move) ==
    [list_repr EXCEPT
        ![move.col][move.row] = 0,
        ![new_position(move)[2]][new_position(move)[1]] = move.color]

(* The grids a call of _move can reach are kept in a sequence, a grid being
   referred to by its place.  NoCopy is line 190 without the copy: the
   local name list_repr refers to the grid of self. *)
NoCopy(grids, ref) == [grids |-> grids, ref |-> ref]

(* deepcopy, line 190: a new grid with the cells of the one copied. *)
deepcopy(grids, ref) ==
    [grids |-> Append(grids, grids[ref]), ref |-> Len(grids) + 1]

(* One call self._move(move): grid 1 is self.list_repr; lines 191-224 write
   to the grid the local list_repr refers to.  The answer has self as the
   call leaves it and the Level returned. *)
move_call(W, self, move) ==
    LET local == deepcopy(<<self.list_repr>>, 1)
        grids == [local.grids EXCEPT
                     ![local.ref] = SettleLoop(W, Shift(@, move))]
    IN [self |-> Level(self.blocks, grids[1]),
        ret |-> Level(BlocksOf(grids[local.ref]), grids[local.ref])]

(* Level._move *)
Level_move(W, level, move) == move_call(W, level, move).ret

(* possible_moves with the wall test of a cell inside the grid left out:
   only the border and the other blocks stop a block. *)
PossibleMovesThroughWalls(W, level) ==
    LET blocks_coords == {<<b.row, b.col>> : b \in level.blocks}
        vacant(row, col) ==
            /\ <<row, col>> \notin blocks_coords
            /\ col >= 0
            /\ col < W.width
    IN {Move(b.row, b.col, b.color, TRUE) :
            b \in {c \in level.blocks : vacant(c.row, c.col - 1)}}
       \cup {Move(b.row, b.col, b.color, FALSE) :
            b \in {c \in level.blocks : vacant(c.row, c.col + 1)}}

(* Level.possible_moves; the list is in the iteration order of the block
   set, which the model leaves open: the moves are a set. *)
possible_moves(W, level) ==
    LET blocks_coords == {<<b.row, b.col>> : b \in level.blocks}
        left_vacant(row, col) ==
            IF <<row, col - 1>> \in blocks_coords THEN FALSE
            ELSE ~is_wall(W, row, col - 1)
        right_vacant(row, col) ==
            IF <<row, col + 1>> \in blocks_coords THEN FALSE
            ELSE ~is_wall(W, row, col + 1)
    IN {Move(b.row, b.col, b.color, TRUE) :
            b \in {c \in level.blocks : left_vacant(c.row, c.col)}}
       \cup {Move(b.row, b.col, b.color, FALSE) :
            b \in {c \in level.blocks : right_vacant(c.row, c.col)}}

(* Level.children *)
children(W, level) ==
    [move \in possible_moves(W, level) |-> Level_move(W, level, move)]

(* Level.is_win *)
is_win(level) == Cardinality(level.blocks) = 0

(* Block.blocks_by_color, as the set of colours and the blocks of each. *)
ColorsOf(blocks) == {b.color : b \in blocks}

BlocksOfColor(blocks, color) == {b \in blocks : b.color = color}

(* any(row[lo + 1 : hi]) for a row of the wall grid *)
AnyWallBetween(row, lo, hi) == \E col \in lo + 1 .. hi - 1 : row[col]

(* is_deadend reading the top row of the wall grid, walls[0], where the
   source reads the bottom row, walls[-1]. *)
IsDeadendTopRow(W, level) ==
    \E color \in ColorsOf(level.blocks) :
        LET bs == BlocksOfColor(level.blocks, color)
            x_coords == {b.col : b \in {c \in bs : c.row = W.height - 1}}
        IN \/ Cardinality(bs) = 1
           \/ /\ Cardinality(bs) <= 3
              /\ Cardinality(x_coords) >= 2
              /\ AnyWallBetween(W.walls[0],
                                CHOOSE lo \in x_coords :
                                    \A x \in x_coords : lo <= x,
                                CHOOSE hi \in x_coords :
                                    \A x \in x_coords : x <= hi)

(* Level.is_deadend: some colour has one block, or has at most three of
   which two or more are on the bottom row with a wall of that row between
   the leftmost and the rightmost.  The loop returns at the first such
   colour, so the order of the colours does not matter. *)
is_deadend(W, level) ==
    \E color \in ColorsOf(level.blocks) :
        LET bs == BlocksOfColor(level.blocks, color)
            x_coords == {b.col : b \in {c \in bs : c.row = W.height - 1}}
        IN \/ Cardinality(bs) = 1
           \/ /\ Cardinality(bs) <= 3
              /\ Cardinality(x_coords) >= 2
              /\ AnyWallBetween(W.walls[W.height - 1],
                                CHOOSE lo \in x_coords :
                                    \A x \in x_coords : lo <= x,
                                CHOOSE hi \in x_coords :
                                    \A x \in x_coords : x <= hi)

(***************************************************************************)
(* Block.heuristics                                                        *)
(***************************************************************************)

(* sorted(b.col for b in bs) *)
RECURSIVE SortedCols(_)
SortedCols(bs) ==
    IF bs = {} THEN << >>
    ELSE LET b == CHOOSE b \in bs : \A c \in bs : b.col <= c.col
         IN <<b.col>> \o SortedCols(bs \ {b})

MaxOf(S) == CHOOSE m \in S : \A n \in S : n <= m

(* max(x_coords[i + 1] - x_coords[i] for i in range(len(bs) - 1)) *)
color_heuristics(bs) ==
    LET x_coords == SortedCols(bs)
    IN MaxOf({x_coords[i + 1] - x_coords[i] : i \in 1 .. Len(x_coords) - 1})

(* max() of an empty sequence raises ValueError: a colour with one block. *)
heuristics_raises(blocks) ==
    \E color \in ColorsOf(blocks) :
        Cardinality(BlocksOfColor(blocks, color)) = 1

RECURSIVE SumOver(_, _)
SumOver(colors, blocks) ==
    IF colors = {} THEN 0
    ELSE LET color == CHOOSE c \in colors : TRUE
             g == color_heuristics(BlocksOfColor(blocks, color))
         IN (IF g <= 1 THEN 0 ELSE g - 1) + SumOver(colors \ {color}, blocks)

(* Block.heuristics, where it returns. *)
heuristics(blocks) ==
    IF Cardinality(blocks) = 0 THEN 0
    ELSE 1 + SumOver(ColorsOf(blocks), blocks)

(***************************************************************************)
(* Level.from_str                                                          *)
(***************************************************************************)

(* A layout is the text grid: layout[row][col] is -1 for the wall
   character, 0 for the empty character and c >= 1 for the c-th colour
   character. *)
Layouts == [0 .. Height - 1 -> [0 .. Width - 1 -> -1 .. NumColors]]

(* Walls.from_str *)
Walls_from_str(layout) ==
    Walls_init([row \in DOMAIN layout |->
                   [col \in DOMAIN layout[row] |-> layout[row][col] = -1]])

(* Block.from_str: colours are numbered in the order their characters are
   first seen, row by row. *)
Block_from_str(layout) ==
    LET width == Cardinality(DOMAIN layout[0])
        cells == {<<row, col>> \in (DOMAIN layout) \X (DOMAIN layout[0]) :
                     layout[row][col] > 0}
        pos(cell) == cell[1] * width + cell[2]
        first(char) == CHOOSE c \in cells :
                          /\ layout[c[1]][c[2]] = char
                          /\ \A d \in cells :
                                layout[d[1]][d[2]] = char => pos(c) <= pos(d)
        chars == {layout[c[1]][c[2]] : c \in cells}
        color_index(char) ==
            Cardinality({d \in chars : pos(first(d)) < pos(first(char))}) + 1
    IN {Block(color_index(layout[c[1]][c[2]]), c[1], c[2]) : c \in cells}

(* Level.from_str: list_repr is None, so the grid is built from the blocks. *)
Level_from_str(layout) ==
    LET blocks == Block_from_str(layout)
    IN Level(blocks, to_nested_list(Walls_from_str(layout), blocks))

(***************************************************************************)
(* State                                                                   *)
(***************************************************************************)

VARIABLES
    walls,          \* the Walls object every Level of the run shares
    level,          \* the Level the driver holds
    maximal_cost,   \* VexedSolver.maximal_cost of the one solver object
    pc,             \* where the solver is
    start,          \* astar's argument start, once called
    bound,          \* astar's argument maximal_cost of the current call
    result,         \* what the call returned or raised
    objs            \* the Level objects the driver holds, oldest first:
                    \* each as it is now and as it was when made

vars == <<walls, level, maximal_cost, pc, start, bound, result, objs>>

NoResult == [kind |-> "none", value |-> << >>]

Raised(name) == [kind |-> name, value |-> << >>]

Returned(kind, value) == [kind |-> kind, value |-> value]

(* The bounds a caller passes: none (the default inf) or a number. *)
Bounds == {None} \cup {Some(n) : n \in 0 .. MaxBound}

(* A Level object just made. *)
Held(lv) == [now |-> lv, made |-> lv]

Init ==
    /\ \E layout \in Layouts :
          /\ walls = Walls_from_str(layout)
          /\ level = Level_from_str(layout)
          /\ objs = <<Held(Level_from_str(layout))>>
    /\ maximal_cost = None
    /\ pc = "idle"
    /\ start = None
    /\ bound = None
    /\ result = NoResult

(* No call of astar is under way. *)
AtRest == pc \in {"idle", "returned", "raised"}

(* The driver plays one of the possible moves and keeps the Level it gets:
   level = level.move(move). *)
DoMove ==
    /\ AtRest
    /\ \E move \in possible_moves(walls, level) :
          /\ level' = Level_move(walls, level, move)
          /\ objs' = <<Held(Level_move(walls, level, move))>>
    /\ pc' = "idle"
    /\ start' = None
    /\ bound' = None
    /\ result' = NoResult
    /\ UNCHANGED <<walls, maximal_cost>>

(* astar, lines 65-66: a bound that is given is stored on the solver. *)
StoredBound(given) == IF given # None THEN given ELSE maximal_cost

(* astar as the source has it.  A start without blocks is returned in a
   list; otherwise line 73 reads start.heuristics, an attribute Level does
   not have, and the call raises AttributeError. *)
Astar ==
    /\ AtRest
    /\ \E given \in Bounds :
          /\ bound' = given
          /\ maximal_cost' = StoredBound(given)
    /\ start' = Some(level)
    /\ IF is_win(level)
       THEN /\ pc' = "returned"
            /\ result' = Returned("levels", <<level>>)
       ELSE /\ pc' = "raised"
            /\ result' = Raised("AttributeError")
    /\ UNCHANGED <<walls, objs, level>>

Next == DoMove \/ Astar

Spec == Init /\ [][Next]_vars

(***************************************************************************)
(* A driver that keeps the levels it moved from                            *)
(***************************************************************************)

(* level.move(move) on any Level still held, children() of a parent
   included; the Level moved from stays held. *)
MoveHeld ==
    /\ pc = "idle"
    /\ Len(objs) < MaxHeld
    /\ \E i \in 1 .. Len(objs) :
          \E move \in possible_moves(walls, objs[i].now) :
              LET call == move_call(walls, objs[i].now, move) IN
              /\ objs' = Append([objs EXCEPT ![i].now = call.self],
                                Held(call.ret))
              /\ level' = call.ret
    /\ UNCHANGED <<walls, maximal_cost, pc, start, bound, result>>

(* The driver lets go of the oldest Level it holds. *)
Release ==
    /\ pc = "idle"
    /\ Len(objs) >= 2
    /\ objs' = Tail(objs)
    /\ UNCHANGED <<walls, level, maximal_cost, pc, start, bound, result>>

NextMoves == MoveHeld \/ Release

SpecMoves == Init /\ [][NextMoves]_vars

(***************************************************************************)
(* The fall phase and the merge phase of _move, one at a time              *)
(***************************************************************************)

(* The grids the phases are given: those of the layouts of a board high
   enough for a block to fall more than one row. *)
PhaseLayouts ==
    [0 .. PhaseHeight - 1 -> [0 .. PhaseWidth - 1 -> -1 .. NumColors]]

InitPhases ==
    /\ \E layout \in PhaseLayouts :
          /\ walls = Walls_from_str(layout)
          /\ level = Level_from_str(layout)
          /\ objs = <<Held(Level_from_str(layout))>>
    /\ maximal_cost = None
    /\ pc = "idle"
    /\ start = None
    /\ bound = None
    /\ result = NoResult

(* Lines 194-204 once, on the grid at hand. *)
FallOnce ==
    /\ LET list_repr == FallPhase(level.list_repr, walls.empty_columns, 1)
       IN /\ level' = Level(BlocksOf(list_repr), list_repr)
          /\ objs' = <<Held(Level(BlocksOf(list_repr), list_repr))>>
    /\ UNCHANGED <<walls, maximal_cost, pc, start, bound, result>>

(* Lines 209-224 once, on the grid at hand. *)
MergeOnce ==
    /\ LET list_repr == MergePhase(walls, level.list_repr)
       IN /\ level' = Level(BlocksOf(list_repr), list_repr)
          /\ objs' = <<Held(Level(BlocksOf(list_repr), list_repr))>>
    /\ UNCHANGED <<walls, maximal_cost, pc, start, bound, result>>

NextPhases == FallOnce \/ MergeOnce

SpecPhases == InitPhases /\ [][NextPhases]_vars

(***************************************************************************)
(* Notions the properties are stated with                                  *)
(***************************************************************************)

(* Some sequence of exactly n possible moves from lv ends with no block. *)
RECURSIVE WinsIn(_, _, _)
WinsIn(W, lv, n) ==
    IF n = 0 THEN is_win(lv)
    ELSE \E move \in possible_moves(W, lv) :
            WinsIn(W, Level_move(W, lv, move), n - 1)

(* The true minimum solution length of lv is k. *)
MinMovesIs(W, lv, k) ==
    /\ WinsIn(W, lv, k)
    /\ \A j \in 0 .. k - 1 : ~WinsIn(W, lv, j)

Abs(n) == IF n < 0 THEN -n ELSE n

(* No block has a free cell below it, no two blocks of one colour are
   neighbours, and one more fall phase and then merge phase change no cell. *)
Settled(W, lv) ==
    /\ \A b \in lv.blocks :
          \/ is_wall(W, b.row + 1, b.col)
          \/ \E c \in lv.blocks : c.row = b.row + 1 /\ c.col = b.col
    /\ \A b, c \in lv.blocks :
          b.color = c.color => Abs(b.row - c.row) + Abs(b.col - c.col) # 1
    /\ LET again == MergePhase(W, FallPhase(lv.list_repr, W.empty_columns, 1))
       IN \A x \in 0 .. W.width - 1 : \A y \in 0 .. W.height - 1 :
             again[x][y] = lv.list_repr[x][y]

(* A call of astar has ended. *)
CallEnded == pc \in {"returned", "raised"} /\ start # None

(***************************************************************************)
(* Properties                                                              *)
(***************************************************************************)

(* C2: for a start whose true minimum solution length is k >= 1, astar
   called with the bound k returns a move sequence. *)
C2_BoundKSucceeds ==
    (CallEnded /\ bound # None /\ bound[1] >= 1
               /\ MinMovesIs(walls, start[1], bound[1]))
        => result.kind = "moves"

(* C3: for a start whose true minimum solution length is k >= 1, astar
   called with the bound k - 1 returns None. *)
C3_BoundBelowKNotFound ==
    (CallEnded /\ bound # None
               /\ MinMovesIs(walls, start[1], bound[1] + 1))
        => result.kind = "None"

(* C4: for a start with at least one block whose true minimum solution
   length is k, astar called with no bound returns k moves. *)
C4_UnboundedIsMinimal ==
    \A k \in 1 .. MaxDepth :
        (CallEnded /\ bound = None /\ MinMovesIs(walls, start[1], k))
            => (result.kind = "moves" /\ Len(result.value) = k)

(* C5: the heuristic never exceeds the length of a move sequence that
   empties the board, and it is 0 on the empty board. *)
C5_Admissible ==
    /\ heuristics({}) = 0
    /\ \A n \in 0 .. MaxDepth :
          WinsIn(walls, level, n) => heuristics(level.blocks) <= n

(* C6: astar called with no bound returns None only when no move sequence
   empties the board, and returns a sequence whenever one does. *)
C6_UnboundedFindsSolution ==
    (CallEnded /\ bound = None)
        => \A n \in 0 .. MaxDepth :
              WinsIn(walls, start[1], n)
                  => result.kind \in {"moves", "levels"}

(* C7: for a start in which some colour has exactly one block, astar
   returns None and the heuristic of the start is a cost, not a failure. *)
C7_SingletonIsNotFound ==
    (CallEnded /\ \E color \in ColorsOf(start[1].blocks) :
                     Cardinality(BlocksOfColor(start[1].blocks, color)) = 1)
        => (result.kind = "None" /\ ~heuristics_raises(start[1].blocks))

(* C9: the bound belongs to the call it is passed to and to nothing else:
   a call made with no bound runs on a solver that holds no bound, as a
   call on a fresh solver does. *)
C9_BoundIsPerCall ==
    (CallEnded /\ bound = None) => maximal_cost = None

(* C10: the level Level._move returns is settled, for every level and
   every possible move of it. *)
C10_MoveSettles ==
    \A move \in possible_moves(walls, level) :
        Settled(walls, Level_move(walls, level, move))

(* A move from a settled level after which blocks merged and a block that
   was not the one moved came down. *)
C10_Witness ==
    /\ Settled(walls, level)
    /\ \E move \in possible_moves(walls, level) :
          LET kid == Level_move(walls, level, move) IN
          /\ Settled(walls, kid)
          /\ Cardinality(kid.blocks) < Cardinality(level.blocks)
          /\ \E b \in level.blocks :
                /\ <<b.row, b.col>> # original_position(move)
                /\ b \notin kid.blocks
                /\ \E c \in kid.blocks :
                      c.color = b.color /\ c.col = b.col /\ c.row > b.row

(* The number of blocks of a colour. *)
CountOf(blocks, color) == Cardinality(BlocksOfColor(blocks, color))

(* Every block is on a cell of the grid that is not a wall, and no two
   blocks are on one cell. *)
WellPlaced(W, blocks) ==
    /\ \A b \in blocks :
          /\ b.row \in 0 .. W.height - 1
          /\ b.col \in 0 .. W.width - 1
          /\ ~W.walls[b.row][b.col]
    /\ \A b, c \in blocks : (b.row = c.row /\ b.col = c.col) => b = c

(* C11: in the level built from a layout and in every level the possible
   moves lead to, every block is on a cell of the grid that is not a wall
   and no two blocks are on one cell. *)
C11_BlocksWellPlaced ==
    /\ WellPlaced(walls, level.blocks)
    /\ \A move \in possible_moves(walls, level) :
          WellPlaced(walls, Level_move(walls, level, move).blocks)

(* A move beside a wall cell after which a block fell and two blocks
   are left, both well placed. *)
C11_Witness ==
    \E move \in possible_moves(walls, level) :
        LET kid == Level_move(walls, level, move) IN
        /\ WellPlaced(walls, kid.blocks)
        /\ Cardinality(kid.blocks) >= 2
        /\ \E row \in 0 .. walls.height - 1 : walls.walls[row][move.col]
        /\ \E b \in kid.blocks :
              /\ b.col = new_position(move)[2]
              /\ b.row > move.row
              /\ b.color = move.color

(* C19: a move leaves the number of blocks of each colour as it was or
   takes at least two away, and a colour with one block keeps its one
   block. *)
C19_ColourCounts ==
    \A move \in possible_moves(walls, level) :
        \A color \in 1 .. NumColors :
            LET before == CountOf(level.blocks, color)
                after == CountOf(Level_move(walls, level, move).blocks, color)
            IN /\ (after = before \/ after <= before - 2)
               /\ (before = 1 => after = 1)

(* A move after which three blocks of one colour are gone while the one
   block of the other colour is still there. *)
C19_Witness ==
    \E move \in possible_moves(walls, level) :
        LET kid == Level_move(walls, level, move) IN
        \E c, d \in 1 .. NumColors :
            /\ CountOf(level.blocks, c) = 3
            /\ CountOf(kid.blocks, c) = 0
            /\ CountOf(level.blocks, d) = 1
            /\ CountOf(kid.blocks, d) = 1

(* C20: astar called on a start without blocks returns the empty sequence
   of moves. *)
C20_EmptyStartReturnsNoMoves ==
    (CallEnded /\ is_win(start[1]))
        => result = Returned("moves", << >>)

(* The block sets one possible move away from a block set. *)
KidsOf(W, blocks) ==
    LET lv == Level(blocks, to_nested_list(W, blocks))
    IN {Level_move(W, lv, move).blocks : move \in possible_moves(W, lv)}

(* The block sets any number of possible moves away from those of seen. *)
RECURSIVE ReachedFrom(_, _, _)
ReachedFrom(W, frontier, seen) ==
    IF frontier = {} THEN seen
    ELSE LET more == (UNION {KidsOf(W, bs) : bs \in frontier}) \ seen
         IN ReachedFrom(W, more, seen \cup more)

(* Some sequence of possible moves, of any length, leaves no block. *)
CanWin(W, lv) == {} \in ReachedFrom(W, {lv.blocks}, {lv.blocks})

(* C13: a level is_deadend answers True for cannot be emptied by any
   sequence of moves. *)
C13_DeadendIsSound ==
    is_deadend(walls, level) => ~CanWin(walls, level)

(* A level that is a deadend by the bottom-row rule alone: no colour has
   one block, a move is possible, and the board cannot be emptied. *)
C13_Witness ==
    /\ is_deadend(walls, level)
    /\ \A color \in ColorsOf(level.blocks) :
          CountOf(level.blocks, color) >= 2
    /\ possible_moves(walls, level) # {}
    /\ Settled(walls, level)
    /\ ~CanWin(walls, level)

(* Two grids have the same cells. *)
SameGrid(W, g, h) ==
    \A x \in 0 .. W.width - 1 : \A y \in 0 .. W.height - 1 : g[x][y] = h[x][y]

(* C12: _move leaves the Level it is called on as it was: the blocks and
   the grid of every Level held are those it was made with, whatever moves
   were made from it or from its children since. *)
C12_InputUnchanged ==
    \A i \in 1 .. Len(objs) :
        /\ objs[i].now.blocks = objs[i].made.blocks
        /\ SameGrid(walls, objs[i].now.list_repr, objs[i].made.list_repr)

(* A Level held with two of its children, made by two different moves, one
   of which merged blocks away; the Level is as it was made. *)
C12_Witness ==
    /\ Len(objs) = 3
    /\ SameGrid(walls, objs[1].now.list_repr, objs[1].made.list_repr)
    /\ \E m1, m2 \in possible_moves(walls, objs[1].made) :
          /\ m1 # m2
          /\ objs[2].made.blocks = Level_move(walls, objs[1].made, m1).blocks
          /\ objs[3].made.blocks = Level_move(walls, objs[1].made, m2).blocks
          /\ objs[2].made.blocks # objs[3].made.blocks
          /\ Cardinality(objs[2].made.blocks)
                < Cardinality(objs[1].made.blocks)

(* The colours of the blocks of a column in the rows lo .. hi, from the
   top down. *)
RECURSIVE ColoursIn(_, _, _)
ColoursIn(column, lo, hi) ==
    IF lo > hi THEN << >>
    ELSE (IF column[lo] > 0 THEN <<column[lo]>> ELSE << >>)
         \o ColoursIn(column, lo + 1, hi)

(* The cells of the empty-column runs. *)
RunCells(W) ==
    UNION {{<<W.empty_columns[k][1], y>> :
               y \in W.empty_columns[k][2] .. W.empty_columns[k][3] - 1} :
           k \in 1 .. Len(W.empty_columns)}

(* C15: one fall phase leaves the blocks of every empty-column run stacked
   on the bottom of the run in the order they had from the top down, the
   rows of the run above them free, and every cell outside the runs as it
   was. *)
C15_FallStacks ==
    LET before == level.list_repr
        after == FallPhase(before, walls.empty_columns, 1)
    IN /\ \A k \in 1 .. Len(walls.empty_columns) :
             LET x == walls.empty_columns[k][1]
                 top == walls.empty_columns[k][2]
                 bottom == walls.empty_columns[k][3] - 1
                 colours == ColoursIn(before[x], top, bottom)
             IN /\ ColoursIn(after[x], top, bottom) = colours
                /\ \A y \in top .. bottom :
                      (after[x][y] > 0) <=> (y > bottom - Len(colours))
                /\ \A y \in top .. bottom - Len(colours) : after[x][y] = 0
       /\ \A x \in 0 .. walls.width - 1 : \A y \in 0 .. walls.height - 1 :
             <<x, y>> \notin RunCells(walls) => after[x][y] = before[x][y]

(* A run of four rows holding a block, a free row, a block of the other
   colour and a free row: the fall takes the first down two rows and the
   second one row, and a block outside the runs stays. *)
C15_Witness ==
    LET before == level.list_repr
        after == FallPhase(before, walls.empty_columns, 1)
    IN /\ \E k \in 1 .. Len(walls.empty_columns) :
             LET x == walls.empty_columns[k][1] IN
             /\ walls.empty_columns[k][2] = 0
             /\ walls.empty_columns[k][3] = 4
             /\ before[x][0] > 0 /\ before[x][1] = 0
             /\ before[x][2] > 0 /\ before[x][3] = 0
             /\ before[x][0] # before[x][2]
             /\ after[x][0] = 0 /\ after[x][1] = 0
             /\ after[x][2] = before[x][0] /\ after[x][3] = before[x][2]
       /\ \E b \in level.blocks : <<b.col, b.row>> \notin RunCells(walls)

(* The blocks with a block of their colour on a neighbouring cell. *)
Touching(blocks) ==
    {b \in blocks :
        \E c \in blocks :
            /\ c.color = b.color
            /\ Abs(b.row - c.row) + Abs(b.col - c.col) = 1}

(* C16: one merge phase takes away the blocks that have a block of their
   colour on a neighbouring cell in the grid the phase starts with, all of
   them together, and leaves every other cell as it was. *)
C16_MergeRemovesTouching ==
    LET before == level.list_repr
        after == MergePhase(walls, before)
        gone == Touching(BlocksOf(before))
    IN /\ BlocksOf(after) = BlocksOf(before) \ gone
       /\ \A x \in 0 .. walls.width - 1 : \A y \in 0 .. walls.height - 1 :
             after[x][y] = IF \E b \in gone : b.col = x /\ b.row = y
                           THEN 0 ELSE before[x][y]

(* Three blocks of one colour in an L go together and a block with no
   neighbour of its colour stays. *)
C16_Witness ==
    LET before == BlocksOf(level.list_repr)
        after == BlocksOf(MergePhase(walls, level.list_repr))
    IN /\ \E a, b, c \in before :
             /\ a.color = b.color /\ b.color = c.color
             /\ a.row = b.row /\ a.col + 1 = b.col
             /\ c.col = b.col /\ c.row = b.row + 1
             /\ {a, b, c} \cap after = {}
             /\ CountOf(before, a.color) = 3
       /\ \E b \in before : b \in after

(* C17: every call of astar ends by returning, a move sequence or None. *)
C17_CallReturns ==
    CallEnded => (pc = "returned"
                    /\ result.kind \in {"moves", "levels", "None"})

====
